---- MODULE Spec2Model ----
(***************************************************************************)
(* Leader-side block generator of chain/core/generator (generator.go).     *)
(*                                                                         *)
(* One process at a time is leader and runs Generate: Recover, the         *)
(* pending-block query, the reconciliation commit, then the tick loop.     *)
(* Peers call Submit and GetBlocks concurrently.  Durable state (the       *)
(* blocks table, the pending block, the tx pool) survives the process;     *)
(* the Generator struct (latestBlock, latestSnapshot) does not.            *)
(*                                                                         *)
(* A pointer is a sequence of length 0 (nil) or 1 (the value pointed to).  *)
(***************************************************************************)
EXTENDS Integers, Sequences, FiniteSets, TLC

\* ---------------------------------------------------------------- bounds
MaxEpoch == 2           \* number of promotions explored
MaxBuilds == 2          \* number of blocks built over a run
MaxInitHeight == 0      \* height of the chain found at the first promotion
MaxPendingHeight == 2   \* height of a pending block left by an earlier leader
MaxAfter == 1           \* greatest ordinary afterHeight a peer asks for
UintBits == 4           \* width of the model's unsigned height arithmetic

UintMod == 2 ^ UintBits
UintMax == UintMod - 1

Txs == {"tx1", "tx2"}      \* the transactions peers submit
OneTx == {"tx1"}            \* the transaction submitted beside GetBlocks

\* ------------------------------------------------------------ data model
Block(h, i) == [height |-> h, id |-> i]

IsNil(p) == p = <<>>
Ptr(v) == <<v>>
Deref(p) == p[1]

\* uint64 addition as the machine computes it
UintAdd(a, c) == (a + c) % UintMod

VARIABLES
    chain,           \* durable: rows of the blocks table, in insertion order
    pending,         \* durable: pointer to the pending (generated) block
    pool,            \* durable: the ledger engine's pending tx pool
    pc,              \* position of the leader process in Generate
    epoch,           \* number of promotions so far
    canceled,        \* ctx.Done() of the current leader is closed
    latestBlock,     \* g.latestBlock (pointer)
    latestSnapshot,  \* g.latestSnapshot (ids of the blocks applied)
    b,               \* Generate's local b (pointer), result of getPendingBlock
    ticks,           \* the time.Tick channel: TRUE when its one-slot buffer is full
    cand,            \* MakeBlock's candidate block (pointer)
    nextId,          \* identity of the next block built
    inFlight,        \* number of MakeBlock calls that have not returned
    hist,            \* history of the current promotion
    gb,              \* a GetBlocks caller
    sub              \* a Submit caller

vars == <<chain, pending, pool, pc, epoch, canceled, latestBlock,
          latestSnapshot, b, ticks, cand, nextId, inFlight, hist, gb, sub>>

durableVars == <<chain, pending, pool>>
procVars == <<pc, epoch, canceled, latestBlock, latestSnapshot, b, ticks,
              cand, nextId, inFlight, hist>>
peerVars == <<gb, sub>>

\* --------------------------------------------- ledger engine and storage
\* Height of a head pointer; an empty chain has no head block and the first
\* block of a chain has height 1.
HeadHeight(lb) == IF IsNil(lb) THEN 0 ELSE Deref(lb).height

Heights(rows) == {rows[i].height : i \in 1..Len(rows)}

RECURSIVE SnapshotOf(_)
\* The state obtained by applying the rows in order: the ids applied.
SnapshotOf(rows) ==
    IF rows = <<>> THEN <<>>
    ELSE Append(SnapshotOf(SubSeq(rows, 1, Len(rows) - 1)), rows[Len(rows)].id)

\* FC.Recover: the stored block of greatest height and its snapshot, a nil
\* block on an empty chain.
Recover(rows) ==
    IF rows = <<>>
    THEN [block |-> <<>>, snapshot |-> <<>>]
    ELSE LET top == CHOOSE i \in 1..Len(rows) :
                        \A j \in 1..Len(rows) : rows[j].height <= rows[i].height
         IN  [block |-> Ptr(rows[top]), snapshot |-> SnapshotOf(rows)]

commitBlock_NoHeightCheck(lb, ls, rows, blk, extOk) ==
    IF ~extOk
    THEN [err |-> TRUE, chain |-> rows, latestBlock |-> lb, latestSnapshot |-> ls]
    ELSE [err |-> FALSE, chain |-> Append(rows, blk),
          latestBlock |-> Ptr(blk), latestSnapshot |-> Append(ls, blk.id)]

\* g.commitBlock: sign, validate against the head, store, update the head.
\* A candidate whose height is not the head's height + 1 is rejected, and so
\* is any candidate when signing or storing fails (extOk = FALSE); a failed
\* commit applies nothing.
commitBlock(lb, ls, rows, blk, extOk) ==
    IF blk.height # HeadHeight(lb) + 1 \/ ~extOk
    THEN [err |-> TRUE, chain |-> rows, latestBlock |-> lb, latestSnapshot |-> ls]
    ELSE [err |-> FALSE, chain |-> Append(rows, blk),
          latestBlock |-> Ptr(blk), latestSnapshot |-> Append(ls, blk.id)]

\* FC.WaitForBlock(height) may return nil once the height is committed.
WaitForBlockReady(rows, height) == height \in Heights(rows)

\* -------------------------------------------------------------- Generate
New_DropsBlock(block, snapshot) == [latestBlock |-> <<>>, latestSnapshot |-> snapshot]

\* New: the generator holds the block and snapshot it is given.
New(block, snapshot) == [latestBlock |-> block, latestSnapshot |-> snapshot]

RecoverErrNext_LogOnly == "recovered"
\* log.Fatal after a failed Recover
RecoverErrNext == "fatal"
RecoverOkNext_SkipsPending == "loop"
\* after a successful Recover the pending block is queried
RecoverOkNext == "recovered"
\* log.Fatal after a failed getPendingBlock
PendingErrNext == "fatal"
\* log.Fatal after a failed startup commitBlock
CommitErrNext == "fatal"
ShouldCommitPending_NilAsZero(pb, lb) ==
    ~IsNil(pb) /\ Deref(pb).height = UintAdd(HeadHeight(lb), 1)
ShouldCommitPending_SameHeight(pb, lb) ==
    ~IsNil(pb) /\ (IsNil(lb) \/ Deref(pb).height = Deref(lb).height)
\* the condition of the startup commit
ShouldCommitPending(pb, lb) ==
    ~IsNil(pb) /\ (IsNil(lb) \/ Deref(pb).height = UintAdd(Deref(lb).height, 1))
TickCaseReady_Default(t) == TRUE
\* case <-ticks: may be chosen once the channel holds a tick
TickCaseReady(t) == t
TickCaseNext_Async == "loop"
\* case <-ticks: MakeBlock is called and the loop waits for its return
TickCaseNext == "making"
MakeBlockErrNext_Return == "returned"
\* log.Error after a failed MakeBlock, then the next iteration
MakeBlockErrNext == "loop"
DoneCaseReady_Never(c) == FALSE
\* case <-ctx.Done(): may be chosen once the context is canceled
DoneCaseReady(c) == c

Alive == {"start", "recovered", "pendingKnown", "loop", "making", "built"}
Stopped == {"idle", "returned", "fatal", "crashed"}
TimerRunning == {"loop", "making", "built"}

NoHist == [recoverCalls |-> 0, pendingQueries |-> 0, startCommits |-> 0,
           startCommit |-> "none", failed |-> FALSE, tickSeen |-> FALSE,
           recBlock |-> <<>>, recSnapshot |-> <<>>, recLen |-> 0,
           runStart |-> 0, runLen |-> 0, tickCommits |-> 0, lastCycle |-> "none",
           tickAt |-> "none"]

RECURSIVE InitChain(_)
InitChain(k) == IF k = 0 THEN <<>> ELSE Append(InitChain(k - 1), Block(k, 0))

\* no Submit has been called
NoSub == [tx |-> "none", sent |-> <<>>, res |-> "none"]

NoCall == [pc |-> "idle", after |-> 0, seen |-> 0, late |-> FALSE, ret |-> <<>>,
           err |-> "none"]

Init ==
    /\ chain \in {InitChain(k) : k \in 0..MaxInitHeight}
    /\ pending \in {<<>>} \cup {Ptr(Block(h, 0)) : h \in 1..MaxPendingHeight}
    /\ pool = {}
    /\ pc = "idle"
    /\ epoch = 0
    /\ canceled = FALSE
    /\ latestBlock = <<>>
    /\ latestSnapshot = <<>>
    /\ b = <<>>
    /\ ticks = FALSE
    /\ cand = <<>>
    /\ nextId = 1
    /\ inFlight = 0
    /\ hist = NoHist
    /\ gb = NoCall
    /\ sub = NoSub

\* The leader-election mechanism promotes a process once no other is active.
Promote ==
    /\ pc \in Stopped
    /\ epoch < MaxEpoch
    /\ pc' = "start"
    /\ epoch' = epoch + 1
    /\ canceled' = FALSE
    /\ latestBlock' = <<>>
    /\ latestSnapshot' = <<>>
    /\ b' = <<>>
    /\ ticks' = FALSE
    /\ cand' = <<>>
    /\ inFlight' = 0
    /\ hist' = NoHist
    /\ UNCHANGED <<durableVars, nextId, peerVars>>

\* config.FC.Recover and New
DoRecover ==
    /\ pc = "start"
    /\ \E ok \in BOOLEAN :
          IF ok
          THEN LET r == Recover(chain)
                   g == New(r.block, r.snapshot)
               IN  /\ latestBlock' = g.latestBlock
                   /\ latestSnapshot' = g.latestSnapshot
                   /\ pc' = RecoverOkNext
                   /\ hist' = [hist EXCEPT !.recoverCalls = @ + 1,
                                            !.recBlock = r.block,
                                            !.recSnapshot = r.snapshot,
                                            !.recLen = Len(chain),
                                            !.runStart = HeadHeight(r.block)]
          ELSE /\ pc' = RecoverErrNext
               /\ hist' = [hist EXCEPT !.recoverCalls = @ + 1, !.failed = TRUE,
                                        !.recLen = Len(chain)]
               /\ UNCHANGED <<latestBlock, latestSnapshot>>
    /\ UNCHANGED <<durableVars, epoch, canceled, b, ticks, cand, nextId,
                   inFlight, peerVars>>

\* g.getPendingBlock
DoGetPending ==
    /\ pc = "recovered"
    /\ \E ok \in BOOLEAN :
          IF ok
          THEN /\ b' = pending
               /\ pc' = "pendingKnown"
               /\ hist' = [hist EXCEPT !.pendingQueries = @ + 1]
          ELSE /\ pc' = PendingErrNext
               /\ hist' = [hist EXCEPT !.pendingQueries = @ + 1, !.failed = TRUE]
               /\ UNCHANGED b
    /\ UNCHANGED <<durableVars, epoch, canceled, latestBlock, latestSnapshot,
                   ticks, cand, nextId, inFlight, peerVars>>

\* The startup commit of the pending block, then time.Tick(period).
Reconcile ==
    /\ pc = "pendingKnown"
    /\ IF ShouldCommitPending(b, latestBlock)
       THEN \E extOk \in BOOLEAN :
              LET r == commitBlock(latestBlock, latestSnapshot, chain, Deref(b), extOk)
              IN  /\ chain' = r.chain
                  /\ latestBlock' = r.latestBlock
                  /\ latestSnapshot' = r.latestSnapshot
                  /\ pc' = IF r.err THEN CommitErrNext ELSE "loop"
                  /\ hist' = [hist EXCEPT !.startCommits = @ + 1,
                                           !.startCommit = IF r.err THEN "err" ELSE "ok",
                                           !.failed = r.err,
                                           !.runStart = HeadHeight(r.latestBlock)]
       ELSE /\ pc' = "loop"
            /\ UNCHANGED <<chain, latestBlock, latestSnapshot, hist>>
    /\ ticks' = FALSE
    /\ UNCHANGED <<pending, pool, epoch, canceled, b, cand, nextId, inFlight, peerVars>>

\* The timer sends a tick; a tick that finds the buffer full is dropped.
TimerFire ==
    /\ pc \in TimerRunning
    /\ ~ticks
    /\ ticks' = TRUE
    /\ hist' = [hist EXCEPT !.tickAt = IF pc = "loop" THEN "loop" ELSE "cycle"]
    /\ UNCHANGED <<durableVars, pc, epoch, canceled, latestBlock, latestSnapshot,
                   b, cand, nextId, inFlight, peerVars>>

\* select, case <-ctx.Done(): Generate returns.
SelectDone ==
    /\ pc = "loop"
    /\ DoneCaseReady(canceled)
    /\ pc' = "returned"
    /\ UNCHANGED <<durableVars, epoch, canceled, latestBlock, latestSnapshot, b,
                   ticks, cand, nextId, inFlight, hist, peerVars>>

\* select, case <-ticks: the tick is received and g.MakeBlock is called.
\* select chooses among its ready cases, so this case may be taken whenever
\* a tick is buffered, whatever the state of ctx.
SelectTick ==
    /\ pc = "loop"
    /\ TickCaseReady(ticks)
    /\ ticks' = FALSE
    /\ pc' = TickCaseNext
    /\ inFlight' = inFlight + 1
    /\ hist' = [hist EXCEPT !.tickSeen = TRUE, !.tickAt = "none"]
    /\ UNCHANGED <<durableVars, epoch, canceled, latestBlock, latestSnapshot, b,
                   cand, nextId, peerVars>>

\* MakeBlock, first half: a block is generated on top of the head and saved
\* as the pending block.
BuildOk ==
    /\ pc = "making"
    /\ nextId <= MaxBuilds
    /\ LET blk == Block(HeadHeight(latestBlock) + 1, nextId)
       IN  /\ cand' = Ptr(blk)
           /\ pending' = Ptr(blk)
    /\ nextId' = nextId + 1
    /\ pc' = "built"
    /\ UNCHANGED <<chain, pool, epoch, canceled, latestBlock, latestSnapshot, b,
                   ticks, inFlight, hist, peerVars>>

\* MakeBlock fails before a block is saved; Generate logs the error.
BuildErr ==
    /\ pc = "making"
    /\ pc' = MakeBlockErrNext
    /\ inFlight' = inFlight - 1
    /\ hist' = [hist EXCEPT !.lastCycle = "err", !.runLen = 0,
                            !.runStart = HeadHeight(latestBlock)]
    /\ UNCHANGED <<durableVars, epoch, canceled, latestBlock, latestSnapshot, b,
                   ticks, cand, nextId, peerVars>>

\* MakeBlock, second half: g.commitBlock of the candidate, then the return
\* to Generate, which logs an error.
CommitCycle ==
    /\ pc = "built"
    /\ \E extOk \in BOOLEAN :
          LET r == commitBlock(latestBlock, latestSnapshot, chain, Deref(cand), extOk)
          IN  /\ chain' = r.chain
              /\ latestBlock' = r.latestBlock
              /\ latestSnapshot' = r.latestSnapshot
              /\ pc' = IF r.err THEN MakeBlockErrNext ELSE "loop"
              /\ hist' = IF r.err
                         THEN [hist EXCEPT !.lastCycle = "err", !.runLen = 0,
                                           !.runStart = HeadHeight(latestBlock)]
                         ELSE [hist EXCEPT !.lastCycle = "ok", !.runLen = @ + 1,
                                           !.tickCommits = @ + 1]
    /\ cand' = <<>>
    /\ inFlight' = inFlight - 1
    /\ UNCHANGED <<pending, pool, epoch, canceled, b, ticks, nextId, peerVars>>

\* The leader is deposed: its context is canceled.
Cancel ==
    /\ pc \in Alive
    /\ ~canceled
    /\ canceled' = TRUE
    /\ UNCHANGED <<durableVars, pc, epoch, latestBlock, latestSnapshot, b, ticks,
                   cand, nextId, inFlight, hist, peerVars>>

\* The leader process dies at any point: its memory (the generator, its
\* locals, the timer, the context) is gone, durable state stays as it is.
Crash ==
    /\ pc \in Alive
    /\ pc' = "crashed"
    /\ canceled' = FALSE
    /\ latestBlock' = <<>>
    /\ latestSnapshot' = <<>>
    /\ b' = <<>>
    /\ ticks' = FALSE
    /\ cand' = <<>>
    /\ inFlight' = 0
    /\ hist' = NoHist
    /\ UNCHANGED <<durableVars, epoch, nextId, peerVars>>

\* ---------------------------------------------------------------- Submit
\* FC.AddTx: the pool after the call and the error it returns
AddTx(txs, tx, ok) ==
    [pool |-> IF ok THEN txs \cup {tx} ELSE txs, err |-> IF ok THEN "nil" ELSE "err"]

SubmitCalls_FirstTx(tx) == <<"tx1">>

SubmitCalls_Twice(tx) == <<tx, tx>>

\* the calls of FC.AddTx that Submit makes, by their argument: one, with the
\* transaction it was given
SubmitCalls(tx) == <<tx>>

RECURSIVE AddTxAll(_, _, _)
\* the calls made in order; the error is that of the last call
AddTxAll(txs, calls, ok) ==
    IF Len(calls) = 1
    THEN AddTx(txs, calls[1], ok)
    ELSE AddTxAll(AddTx(txs, calls[1], ok).pool, Tail(calls), ok)

SubmitResult_Nil(err) == "nil"

\* Submit returns the error of FC.AddTx
SubmitResult(err) == err

Submit_AppliesToHead(tx) ==
    /\ \E ok \in BOOLEAN :
          LET r == AddTxAll(pool, SubmitCalls(tx), ok)
          IN  /\ pool' = r.pool
              /\ sub' = [tx |-> tx, sent |-> SubmitCalls(tx),
                         res |-> SubmitResult(r.err)]
    /\ latestSnapshot' = <<>>
    /\ UNCHANGED <<chain, pending, pc, epoch, canceled, latestBlock, b, ticks,
                   cand, nextId, inFlight, hist, gb>>

\* Config.Submit: FC.AddTx admits the transaction or fails.
Submit(tx) ==
    /\ \E ok \in BOOLEAN :
          LET r == AddTxAll(pool, SubmitCalls(tx), ok)
          IN  /\ pool' = r.pool
              /\ sub' = [tx |-> tx, sent |-> SubmitCalls(tx),
                         res |-> SubmitResult(r.err)]
    /\ UNCHANGED <<chain, pending, procVars, gb>>

\* ------------------------------------------------------------- GetBlocks
RECURSIVE OrderByHeight(_)
\* ORDER BY height over a set of rows given as a sequence
OrderByHeight(rows) ==
    IF rows = <<>> THEN <<>>
    ELSE LET m == CHOOSE i \in 1..Len(rows) :
                      \A j \in 1..Len(rows) : rows[i].height <= rows[j].height
             rest == [k \in 1..(Len(rows) - 1) |-> IF k < m THEN rows[k] ELSE rows[k + 1]]
         IN  <<rows[m]>> \o OrderByHeight(rest)

KeepAbove_OrEqual(row, after) == row.height >= after

\* WHERE height > $1
KeepAbove(row, after) == row.height > after

\* SELECT data FROM blocks WHERE height > $1 ORDER BY height
QueryRows(rows, after) ==
    OrderByHeight(SelectSeq(rows, LAMBDA r : KeepAbove(r, after)))

WaitHeight_NoPlusOne(after) == after

\* the height GetBlocks passes to WaitForBlock
WaitHeight(after) == UintAdd(after, 1)

\* the heights peers ask for, the greatest uint64 among them
AfterHeights == (0..MaxAfter) \cup {UintMax}

GetBlocksCall(after) ==
    /\ gb.pc = "idle"
    /\ gb' = [NoCall EXCEPT !.pc = "waiting", !.after = after]
    /\ UNCHANGED <<durableVars, procVars, sub>>

\* FC.WaitForBlock returns nil
WaitOk ==
    /\ gb.pc = "waiting"
    /\ WaitForBlockReady(chain, WaitHeight(gb.after))
    /\ gb' = [gb EXCEPT !.pc = "querying", !.seen = Len(chain)]
    /\ UNCHANGED <<durableVars, procVars, sub>>

\* FC.WaitForBlock fails (canceled caller, storage error)
WaitErr ==
    /\ gb.pc = "waiting"
    /\ gb' = [gb EXCEPT !.pc = "returned", !.ret = <<>>, !.err = "wait"]
    /\ UNCHANGED <<durableVars, procVars, sub>>

\* pg.ForQueryRows runs to the end: every row was appended to blocks, and
\* blocks is returned.
QueryOk ==
    /\ gb.pc = "querying"
    /\ LET blocks == QueryRows(chain, gb.after)
       IN  gb' = [gb EXCEPT !.pc = "returned", !.ret = blocks, !.seen = 0,
                            !.late = Len(chain) > gb.seen]
    /\ UNCHANGED <<durableVars, procVars, sub>>

QueryErrResult_Partial(blocks) == blocks

\* the list GetBlocks returns when the query has failed with blocks read so far
QueryErrResult(blocks) == <<>>

\* pg.ForQueryRows fails after n rows were appended to blocks: nil is
\* returned with the error.
QueryErr ==
    /\ gb.pc = "querying"
    /\ LET rows == QueryRows(chain, gb.after)
       IN  \E n \in 0..Len(rows) :
              LET blocks == SubSeq(rows, 1, n)
              IN  gb' = [gb EXCEPT !.pc = "returned", !.ret = QueryErrResult(blocks),
                                   !.err = "query", !.seen = 0]
    /\ UNCHANGED <<durableVars, procVars, sub>>

\* the caller is done with the result; another call may follow
GetBlocksDone ==
    /\ gb.pc = "returned"
    /\ gb' = NoCall
    /\ UNCHANGED <<durableVars, procVars, sub>>

Next ==
    \/ Promote
    \/ DoRecover
    \/ DoGetPending
    \/ Reconcile
    \/ TimerFire
    \/ SelectDone
    \/ SelectTick
    \/ BuildOk
    \/ BuildErr
    \/ CommitCycle
    \/ Cancel
    \/ Crash
    \/ \E tx \in OneTx : Submit(tx)
    \/ \E after \in AfterHeights : GetBlocksCall(after)
    \/ WaitOk
    \/ WaitErr
    \/ QueryOk
    \/ QueryErr
    \/ GetBlocksDone

Spec == Init /\ [][Next]_vars

\* select chooses uniformly at random among its ready cases, so a case that
\* is ready again and again is taken in the end; a MakeBlock that is running
\* goes on to its return.
Fairness ==
    /\ SF_vars(SelectDone)
    /\ WF_vars(BuildOk \/ BuildErr)
    /\ WF_vars(CommitCycle)

SpecLive == Init /\ [][Next]_vars /\ Fairness

\* ------------------------------------------- Submit beside the scheduler
\* Peers submit any transaction, any number of times, while the leader
\* recovers, builds and commits.
NextSubmit ==
    \/ Promote
    \/ DoRecover
    \/ DoGetPending
    \/ Reconcile
    \/ TimerFire
    \/ SelectDone
    \/ SelectTick
    \/ BuildOk
    \/ BuildErr
    \/ CommitCycle
    \/ Cancel
    \/ Crash
    \/ \E tx \in Txs : Submit(tx)

SpecSubmit == Init /\ [][NextSubmit]_vars

\* ------------------------------------------- commitBlock on any candidate
\* g.commitBlock applied to candidates of every height (stale, duplicate,
\* next, future) on top of a recovered head.
InitCommit ==
    /\ chain \in {InitChain(k) : k \in 0..MaxPendingHeight}
    /\ pending = <<>>
    /\ pool = {}
    /\ pc = "probe"
    /\ epoch = 1
    /\ canceled = FALSE
    /\ latestBlock = Recover(chain).block
    /\ latestSnapshot = Recover(chain).snapshot
    /\ b = <<>>
    /\ ticks = FALSE
    /\ cand = <<>>
    /\ nextId = 1
    /\ inFlight = 0
    /\ hist = NoHist
    /\ gb = NoCall
    /\ sub = NoSub

PickCandidate ==
    /\ pc \in {"probe", "probed"}
    /\ nextId <= MaxBuilds + 1
    /\ \E h \in 0..(MaxPendingHeight + 2) : cand' = Ptr(Block(h, nextId))
    /\ nextId' = nextId + 1
    /\ pc' = "probe"
    /\ UNCHANGED <<durableVars, epoch, canceled, latestBlock, latestSnapshot, b,
                   ticks, inFlight, hist, peerVars>>

CommitProbe ==
    /\ pc = "probe"
    /\ ~IsNil(cand)
    /\ \E extOk \in BOOLEAN :
          LET r == commitBlock(latestBlock, latestSnapshot, chain, Deref(cand), extOk)
          IN  /\ chain' = r.chain
              /\ latestBlock' = r.latestBlock
              /\ latestSnapshot' = r.latestSnapshot
              /\ hist' = [hist EXCEPT !.lastCycle = IF r.err THEN "err" ELSE "ok"]
    /\ pc' = "probed"
    /\ UNCHANGED <<pending, pool, epoch, canceled, b, ticks, cand, nextId,
                   inFlight, peerVars>>

NextCommit == PickCandidate \/ CommitProbe

SpecCommit == InitCommit /\ [][NextCommit]_vars

\* ---------------------------------------------------------------- claims

\* C1: in every reachable state the heights of the committed chain in durable
\* storage are contiguous and unique: no height between the lowest and the
\* highest stored is missing and none is stored twice.
C1_ChainContiguousUnique ==
    /\ Cardinality(Heights(chain)) = Len(chain)
    /\ \A h1 \in Heights(chain) : \A h2 \in Heights(chain) :
          \A h \in h1..h2 : h \in Heights(chain)

\* a successor has committed the block its predecessor built but did not
\* commit, on top of an older chain
C1_Witness ==
    /\ epoch >= 2
    /\ hist.startCommit = "ok"
    /\ Len(chain) >= 2
    /\ Deref(latestBlock).id >= 1

PendingEligible ==
    ~IsNil(b) /\ Deref(b).height = HeadHeight(hist.recBlock) + 1

\* C2: at startup the pending block is committed iff it exists and its height
\* is the recovered head's height + 1; otherwise nothing is committed at
\* startup and the head stays the recovered (block, snapshot) pair.
C2_StartupCommitIff ==
    /\ hist.startCommit = "ok" => PendingEligible
    /\ (pc \in {"loop", "returned"} /\ PendingEligible) => hist.startCommit = "ok"
    /\ (pc \in {"loop", "returned"} /\ hist.pendingQueries = 1 /\ ~hist.tickSeen) =>
          IF hist.startCommit = "ok"
          THEN /\ latestBlock = b
               /\ Len(chain) = hist.recLen + 1
               /\ chain[Len(chain)] = Deref(b)
          ELSE /\ latestBlock = hist.recBlock
               /\ latestSnapshot = hist.recSnapshot
               /\ Len(chain) = hist.recLen
    /\ (pc = "fatal" /\ hist.pendingQueries = 1) =>
          /\ latestBlock = hist.recBlock
          /\ latestSnapshot = hist.recSnapshot
          /\ Len(chain) = hist.recLen

\* startup is over and the pending block found on top of a recovered head
\* block was committed
C2_Witness ==
    /\ pc = "loop"
    /\ ~hist.tickSeen
    /\ hist.startCommit = "ok"
    /\ ~IsNil(hist.recBlock)
    /\ latestBlock = b

\* C3: commitBlock never accepts a candidate whose height is not the head's
\* height + 1: the commit fails and storage and head stay as they were.
C3_RejectsWrongHeight ==
    [][(/\ pc = "probe"
        /\ pc' = "probed"
        /\ Deref(cand).height # HeadHeight(latestBlock) + 1)
       => (/\ hist'.lastCycle = "err"
           /\ chain' = chain
           /\ latestBlock' = latestBlock
           /\ latestSnapshot' = latestSnapshot)]_vars

\* a stale candidate was rejected on top of a head block
C3_Witness ==
    /\ pc = "probed"
    /\ hist.lastCycle = "err"
    /\ ~IsNil(latestBlock)
    /\ Deref(cand).height <= Deref(latestBlock).height

\* after n consecutive successful ticks from head height h the head height is
\* h + n and the last n stored blocks have heights h+1..h+n on top of h
C4_RunInv ==
    LET n == hist.runLen
        h == hist.runStart
        len == Len(chain)
    IN  /\ HeadHeight(latestBlock) = h + n
        /\ n > 0 =>
              /\ len >= n
              /\ \A i \in 1..n : chain[len - n + i].height = h + i
              /\ len > n => chain[len - n].height = h
              /\ len = n => h = 0

\* within one promotion, while the process lives, the head height stays or
\* grows by exactly 1, and it grows exactly when a block is committed
C4_Step ==
    (epoch' = epoch /\ pc # "start" /\ pc' # "crashed") =>
        /\ HeadHeight(latestBlock') \in {HeadHeight(latestBlock), HeadHeight(latestBlock) + 1}
        /\ (chain' # chain) <=> (HeadHeight(latestBlock') = HeadHeight(latestBlock) + 1)

\* C4: after n consecutive successful ticks from head height h the head
\* height is h+n and blocks h+1..h+n each follow their predecessor; the head
\* height never decreases and every successful commit raises it by exactly 1.
C4_ConsecutiveTicks == []C4_RunInv /\ [][C4_Step]_vars

\* two ticks in a row have committed
C4_Witness ==
    /\ pc = "loop"
    /\ hist.runLen >= 2
    /\ HeadHeight(latestBlock) = hist.runStart + 2

\* C5: once the context is canceled while the scheduler waits in its loop, no
\* further production cycle starts.
C5_NoCycleAfterCancel ==
    [][(canceled /\ pc = "loop") => pc' # "making"]_vars

Ascending(blocks) ==
    \A i \in 1..(Len(blocks) - 1) : blocks[i].height < blocks[i + 1].height

\* C6: a successful GetBlocks(afterHeight) has returned only with a block at
\* height afterHeight+1 in storage, and its result is strictly ascending with
\* every height above afterHeight.
C6_GetBlocksResult ==
    (gb.pc = "returned" /\ gb.err = "none") =>
        /\ (gb.after + 1) \in Heights(chain)
        /\ Ascending(gb.ret)
        /\ \A i \in 1..Len(gb.ret) : gb.ret[i].height > gb.after

\* a call has returned two blocks or more above a committed height
C6_Witness ==
    /\ gb.pc = "returned"
    /\ gb.err = "none"
    /\ Len(gb.ret) >= 2
    /\ gb.after >= 1

\* C7: a failure of Recover, of the pending-block query or of the startup
\* commit is fatal: the process is terminated, and it has taken no tick,
\* built no block and committed nothing.
C7_StartupFailureFatal ==
    hist.failed =>
        /\ pc = "fatal"
        /\ ~hist.tickSeen
        /\ ~ticks
        /\ inFlight = 0
        /\ IsNil(cand)
        /\ hist.tickCommits = 0
        /\ Len(chain) = hist.recLen

\* the startup commit of an eligible pending block has failed
C7_Witness ==
    /\ pc = "fatal"
    /\ hist.failed
    /\ hist.startCommit = "err"
    /\ PendingEligible

CycleFails ==
    /\ pc \in {"making", "built"}
    /\ pc' \notin {pc, "built", "crashed"}
    /\ chain' = chain

\* C8: a failed production cycle leaves the head as it was and the scheduler
\* in its loop, and a production cycle starts only by receiving a tick.
C8_FailedTickContinues ==
    /\ [][CycleFails =>
            /\ pc' = "loop"
            /\ latestBlock' = latestBlock
            /\ latestSnapshot' = latestSnapshot
            /\ inFlight' = 0]_vars
    /\ [][(pc' = "making" /\ pc # "making") =>
            (pc = "loop" /\ ticks /\ ~ticks')]_vars

\* a cycle has failed at its commit and the scheduler is back in its loop
C8_Witness ==
    /\ pc = "loop"
    /\ hist.lastCycle = "err"
    /\ ~IsNil(pending)
    /\ Deref(pending).height = HeadHeight(latestBlock) + 1
    /\ Deref(pending).id >= 1
    /\ hist.tickSeen

\* C9: per promotion Recover is invoked once, then the pending-block query,
\* then at most one reconciliation commit, and only then the first tick;
\* every stored block of this promotion is the reconciliation commit or the
\* commit of a tick.
C9_StartupOrder ==
    /\ hist.recoverCalls <= 1
    /\ hist.pendingQueries <= hist.recoverCalls
    /\ hist.startCommits <= hist.pendingQueries
    /\ pc \in {"recovered", "pendingKnown", "loop", "making", "built", "returned"}
          => hist.recoverCalls = 1
    /\ pc \in {"pendingKnown", "loop", "making", "built", "returned"}
          => hist.pendingQueries = 1
    /\ (hist.tickSeen \/ ticks \/ inFlight > 0 \/ hist.tickCommits > 0) =>
          /\ hist.recoverCalls = 1
          /\ hist.pendingQueries = 1
          /\ pc \in {"loop", "making", "built", "returned"}
    /\ hist.tickCommits > 0 => hist.tickSeen
    /\ hist.recoverCalls = 1 =>
          Len(chain) = hist.recLen + hist.tickCommits
                       + (IF hist.startCommit = "ok" THEN 1 ELSE 0)

\* a tick has committed after a reconciliation commit
C9_Witness ==
    /\ hist.startCommit = "ok"
    /\ hist.tickCommits >= 1
    /\ pc = "loop"

\* C10: at most one production cycle is in flight at any time, and one is in
\* flight exactly while the loop waits for MakeBlock to return.
C10_OneCycleInFlight ==
    /\ inFlight <= 1
    /\ (inFlight = 1) <=> (pc \in {"making", "built"})

\* the timer has fired again while a cycle is still in flight
C10_Witness ==
    /\ inFlight = 1
    /\ pc = "built"
    /\ ticks

\* C11: ticks are not queued: a production cycle never starts from a tick
\* that the timer sent while the previous cycle was in flight (hist.tickAt
\* tells where the scheduler was when the tick in the channel was sent).
C11_NoBufferedTick ==
    [][(pc = "loop" /\ pc' = "making") => hist.tickAt # "cycle"]_vars

\* C12: the head is never mismatched: the head snapshot is the state obtained
\* by applying the stored blocks up to and including the head block, in
\* every state, also right after a failed commit.
C12_HeadConsistent ==
    IF IsNil(latestBlock)
    THEN latestSnapshot = <<>>
    ELSE /\ Len(latestSnapshot) = Deref(latestBlock).height
         /\ \E i \in 1..Len(chain) :
               /\ chain[i] = Deref(latestBlock)
               /\ latestSnapshot = SnapshotOf(SubSeq(chain, 1, i))

\* a commit has failed on top of a head that an earlier tick committed
C12_Witness ==
    /\ pc = "loop"
    /\ hist.lastCycle = "err"
    /\ hist.tickCommits >= 1
    /\ ~IsNil(latestBlock)
    /\ Deref(pending) # Deref(latestBlock)

PeerStep == gb' # gb \/ sub' # sub \/ pool' # pool

HeadStep == latestBlock' # latestBlock \/ latestSnapshot' # latestSnapshot

\* C13: no step of Submit or GetBlocks changes the head, and the head changes
\* only in a step of the scheduler: New at promotion, the reconciliation
\* commit, the commit of a tick (and when the generator is discarded, at the
\* death of the process or at the next promotion).
C13_PeersLeaveHead ==
    /\ [][PeerStep => ~HeadStep]_vars
    /\ [][HeadStep =>
            \/ pc = "start" /\ pc' = RecoverOkNext
            \/ pc = "pendingKnown" /\ hist'.startCommit = "ok"
            \/ pc = "built" /\ hist'.tickCommits = hist.tickCommits + 1
            \/ pc \in Stopped /\ pc' = "start"
            \/ pc \in Alive /\ pc' = "crashed"]_vars

\* both peers have been served while the scheduler holds a head it committed
C13_Witness ==
    /\ sub.res = "nil"
    /\ gb.pc = "returned"
    /\ gb.err = "none"
    /\ pc = "making"
    /\ hist.tickCommits >= 1

\* C14: a GetBlocks that fails, in the wait or in the query after rows were
\* read, returns its error with no block list.
C14_NoPartialList ==
    (gb.pc = "returned" /\ gb.err # "none") => gb.ret = <<>>

\* the query has failed although the rows asked for are stored
C14_Witness ==
    /\ gb.pc = "returned"
    /\ gb.err = "query"
    /\ Len(QueryRows(chain, gb.after)) >= 2

\* C15: Submit hands the transaction it was given, and no other, to AddTx
\* in exactly one call and returns AddTx's result: a nil result means that
\* transaction has joined the pool, an error means the pool is as it was.
C15_SubmitForwards ==
    /\ [](sub.res = "nil" => sub.tx \in pool)
    /\ [](sub.res # "none" => sub.sent = <<sub.tx>>)
    /\ [][(sub' # sub \/ pool' # pool) =>
            /\ sub'.tx \in Txs
            /\ sub'.sent = <<sub'.tx>>
            /\ sub'.res \in {"nil", "err"}
            /\ sub'.res = "nil" => pool' = pool \cup {sub'.tx}
            /\ sub'.res = "err" => pool' = pool]_vars

\* the second transaction was admitted, alone, after the first was refused,
\* and is in the pool while a production cycle is building
C15_Witness ==
    /\ sub.tx = "tx2"
    /\ sub.res = "nil"
    /\ pool = {"tx2"}
    /\ pc = "making"

\* C16: under fairness, once the context is canceled while the scheduler is
\* in its loop (waiting or in a cycle that returns), Generate leaves the loop
\* and returns, unless the process dies first.
C16_ReturnsOnCancel ==
    (canceled /\ pc \in {"loop", "making", "built"}) ~> (pc \in {"returned", "crashed"})

\* Generate has returned after cancellation, having run production cycles
C16_Witness ==
    /\ pc = "returned"
    /\ canceled
    /\ hist.tickSeen
    /\ hist.tickCommits >= 1

\* C17: a successful GetBlocks(afterHeight) running beside commits returns a
\* non-empty list of the stored blocks afterHeight+1..k, in order, where k
\* is the chain height at the query, which is at least the height the chain
\* had when the wait ended.
C17_ContiguousTail ==
    /\ [](gb.pc = "querying" =>
            (gb.after + 1 <= gb.seen /\ gb.seen <= Len(chain)))
    /\ []((gb.pc = "returned" /\ gb.err = "none") =>
            /\ Len(gb.ret) >= 1
            /\ gb.ret[1].height = gb.after + 1
            /\ \A i \in 1..Len(gb.ret) :
                  /\ gb.ret[i].height = gb.after + i
                  /\ \E j \in 1..Len(chain) : chain[j] = gb.ret[i]
            /\ gb.after + Len(gb.ret) <= Len(chain))
    /\ [][(gb.pc = "querying" /\ gb'.pc = "returned" /\ gb'.err = "none") =>
            /\ gb.after + Len(gb'.ret) = Len(chain)
            /\ gb.after + Len(gb'.ret) >= gb.seen]_vars

\* the result holds a block that was committed after the wait had ended
C17_Witness ==
    /\ gb.pc = "returned"
    /\ gb.err = "none"
    /\ gb.late
    /\ Len(gb.ret) >= 2

StartupOver == hist.tickSeen \/ ticks \/ pc \in {"loop", "making", "built", "returned"}

\* C18: a pending block found at promotion with height recovered head + 1 is
\* not lost: no other block is ever stored at its height, and it is stored
\* before this leader's loop starts, so before the leader builds a block.
C18_PendingNotLost ==
    PendingEligible =>
        /\ \A i \in 1..Len(chain) :
              chain[i].height = Deref(b).height => chain[i] = Deref(b)
        /\ StartupOver =>
              /\ Len(chain) > hist.recLen
              /\ chain[hist.recLen + 1] = Deref(b)
        /\ Len(chain) = hist.recLen => (IsNil(cand) /\ pending = b)

\* the successor has committed the block its predecessor built and then a
\* block of its own on top of it
C18_Witness ==
    /\ epoch >= 2
    /\ PendingEligible
    /\ Deref(b).id >= 1
    /\ hist.tickCommits >= 1
    /\ Deref(latestBlock).height = Deref(b).height + 1

StartupCommitDecided ==
    \/ pc \in {"loop", "making", "built", "returned"}
    \/ hist.tickSeen
    \/ pc = "fatal" /\ ~IsNil(b)

\* C19: with no head block recovered, an existing pending block is passed to
\* commitBlock at startup whatever its height; with a head block, only a
\* pending block of height head + 1 is passed.
C19_NilHeadPassesAny ==
    /\ (StartupCommitDecided /\ IsNil(hist.recBlock) /\ ~IsNil(b))
          => hist.startCommits = 1
    /\ (hist.startCommits = 1 /\ ~IsNil(hist.recBlock))
          => Deref(b).height = Deref(hist.recBlock).height + 1
    /\ hist.startCommits = 1 => ~IsNil(b)

\* on an empty chain a pending block of height 2 was passed to commitBlock,
\* which refused it
C19_Witness ==
    /\ pc = "fatal"
    /\ IsNil(hist.recBlock)
    /\ hist.recoverCalls = 1
    /\ ~IsNil(b)
    /\ Deref(b).height >= 2
    /\ hist.startCommit = "err"

\* C20 as claimed: for every afterHeight the height GetBlocks waits for is
\* greater than afterHeight.
C20_WaitHeightAbove ==
    gb.pc = "waiting" => WaitHeight(gb.after) > gb.after

====
